---- MODULE Spec2Model ----
(***************************************************************************)
(* VCG mechanism for combinatorial auctions (notebook "VCG").              *)
(*                                                                         *)
(* A valuation profile is a Python dict  bidder -> {frozenset -> value}.   *)
(* Python dicts keep insertion order, and the code's results depend on it  *)
(* (flattening order, tie-break, order of the output), so a profile is     *)
(* modelled as a sequence of entries                                       *)
(*     [bidder |-> b, vals |-> << [itemset |-> S, value |-> x], ... >>]    *)
(* with distinct bidders and, per bidder, distinct itemsets.               *)
(* A bid is the tuple <<bidder, itemset, value>> (Python bid[0..2] is      *)
(* bid[1..3] here).                                                        *)
(***************************************************************************)
EXTENDS Integers, Sequences, FiniteSets, TLC

VARIABLES bids, pc, omega_star, winner_value, raised, player_idx,
          bids_without_player, omega_minus_player, v_omega_minus_player,
          summation_omega_star_minus_player, vcg,
          allocation, adm_pc, admissible,
          run, first_run,
          cw_pc, cw_bids_list, cw_i, cw_candidate, cw_winner, cw_bound,
          cw_winner_value, cw_examined,
          gs_pc, men_preferences, women_preferences, matches, gs_man,
          gs_result, men_preferences_at_call,
          sh_pc, characteristic_function, sh_result,
          runs_done, v_minus, bids_at_call,
          pd_pc, pd_sets, pd_result,
          C, voter_preferences,
          irv_pc, C_copy, preferences_copy, counts, irv_winner, removed,
          C_at_call, preferences_at_call,
          sz_pc, pairwise_matrix, all_pairs_widest_path_matrix, sz_counts,
          sz_winner

vars == <<bids, pc, omega_star, winner_value, raised, player_idx,
          bids_without_player, omega_minus_player, v_omega_minus_player,
          summation_omega_star_minus_player, vcg,
          allocation, adm_pc, admissible,
          run, first_run,
          cw_pc, cw_bids_list, cw_i, cw_candidate, cw_winner, cw_bound,
          cw_winner_value, cw_examined,
          gs_pc, men_preferences, women_preferences, matches, gs_man,
          gs_result, men_preferences_at_call,
          sh_pc, characteristic_function, sh_result,
          runs_done, v_minus, bids_at_call,
          pd_pc, pd_sets, pd_result,
          C, voter_preferences,
          irv_pc, C_copy, preferences_copy, counts, irv_winner, removed,
          C_at_call, preferences_at_call,
          sz_pc, pairwise_matrix, all_pairs_widest_path_matrix, sz_counts,
          sz_winner>>

vcg_vars == <<bids, pc, omega_star, winner_value, raised, player_idx,
              bids_without_player, omega_minus_player, v_omega_minus_player,
              summation_omega_star_minus_player, vcg>>

adm_vars == <<allocation, adm_pc, admissible>>

\* a second call of VCG_auction on the same dict: the call number and what
\* the first call returned
twice_vars == <<run, first_run>>

\* a call of compute_winner, one loop iteration at a time
\* (cw_examined records the candidates built so far, in order)
cw_vars == <<cw_pc, cw_bids_list, cw_i, cw_candidate, cw_winner, cw_bound,
             cw_winner_value, cw_examined>>

\* a call of gale_shapley
\* (men_preferences_at_call keeps the argument as it was at the call:
\* the function pops from the lists of men_preferences)
gs_vars == <<gs_pc, men_preferences, women_preferences, matches, gs_man,
             gs_result, men_preferences_at_call>>

\* a call of shapley
sh_vars == <<sh_pc, characteristic_function, sh_result>>

\* the winner-determination runs of one VCG_auction call taken in any
\* order: the runs already made (0 is the run on the full profile, k the
\* run without the k-th bidder), the value each run without a bidder
\* returned, and the profile as it was at the call
ao_vars == <<runs_done, v_minus, bids_at_call>>

\* the groups added after the first ones; an action of another group
\* leaves them all unchanged
\* a call of pairwise_disjoint on a list of bundles
pd_vars == <<pd_pc, pd_sets, pd_result>>

\* the globals of the voting notebook: the candidate list C and the list
\* preferences of the voters' rankings
vote_vars == <<C, voter_preferences>>

\* a call of IRV; removed lists the candidates eliminated so far, and
\* C_at_call, preferences_at_call keep the caller's data as they were
irv_vars == <<irv_pc, C_copy, preferences_copy, counts, irv_winner, removed,
              C_at_call, preferences_at_call>>

\* a call of schulze_method
sz_vars == <<sz_pc, pairwise_matrix, all_pairs_widest_path_matrix, sz_counts,
             sz_winner>>

rest_vars == <<ao_vars, pd_vars, vote_vars, irv_vars, sz_vars>>

\* the groups of the first functions
first_vars == <<vcg_vars, adm_vars, twice_vars, cw_vars, gs_vars, sh_vars>>

\* the functions that are not running
VCGIdle ==
    /\ bids = <<>>
    /\ pc = "idle"
    /\ omega_star = <<>>
    /\ winner_value = 0
    /\ raised = FALSE
    /\ player_idx = 0
    /\ bids_without_player = <<>>
    /\ omega_minus_player = <<>>
    /\ v_omega_minus_player = 0
    /\ summation_omega_star_minus_player = 0
    /\ vcg = <<>>

AdmIdle == allocation = <<>> /\ adm_pc = "idle" /\ admissible = FALSE

TwiceIdle == run = 1 /\ first_run = <<>>

CWIdle ==
    /\ cw_pc = "idle"
    /\ cw_bids_list = <<>>
    /\ cw_i = 0
    /\ cw_candidate = <<>>
    /\ cw_winner = <<>>
    /\ cw_bound = FALSE
    /\ cw_winner_value = 0
    /\ cw_examined = <<>>

GSIdle ==
    /\ gs_pc = "idle"
    /\ men_preferences = <<>>
    /\ women_preferences = <<>>
    /\ matches = <<>>
    /\ gs_man = 0
    /\ gs_result = <<>>
    /\ men_preferences_at_call = <<>>

SHIdle == sh_pc = "idle" /\ characteristic_function = <<>> /\ sh_result = <<>>

AOIdle == runs_done = {} /\ v_minus = <<>> /\ bids_at_call = <<>>

PDIdle == pd_pc = "idle" /\ pd_sets = <<>> /\ pd_result = FALSE

VoteIdle == C = <<>> /\ voter_preferences = <<>>

IRVIdle ==
    /\ irv_pc = "idle"
    /\ C_copy = <<>>
    /\ preferences_copy = <<>>
    /\ counts = <<>>
    /\ irv_winner = "None"
    /\ removed = <<>>
    /\ C_at_call = <<>>
    /\ preferences_at_call = <<>>

SZIdle ==
    /\ sz_pc = "idle"
    /\ pairwise_matrix = <<>>
    /\ all_pairs_widest_path_matrix = <<>>
    /\ sz_counts = <<>>
    /\ sz_winner = "None"

FirstIdle == VCGIdle /\ AdmIdle /\ TwiceIdle /\ CWIdle /\ GSIdle /\ SHIdle

RestIdle == AOIdle /\ PDIdle /\ VoteIdle /\ IRVIdle /\ SZIdle

(***************************************************************************)
(* Bounds of the explored inputs.                                          *)
(***************************************************************************)
\* total number of (bidder, bundle) bids of an explored profile
MaxBids == 3
\* largest declared value of an explored profile
MaxValue == 2
\* longest candidate handed to is_admissible on its own
MaxCand == 3

BidderNames == <<"a", "b", "c">>
Items == {"A", "B"}
Bundles == (SUBSET Items) \ {{}}
Values == 0 .. MaxValue

(***************************************************************************)
(* Small helpers of the Python runtime.                                    *)
(***************************************************************************)
\* variant: 2*n
RECURSIVE Pow2_linear(_)
Pow2_linear(n) == IF n = 0 THEN 0 ELSE 2 + Pow2_linear(n - 1)

RECURSIVE Pow2(_)
Pow2(n) == IF n = 0 THEN 1 ELSE 2 * Pow2(n - 1)

Reverse(s) == [x \in 1..Len(s) |-> s[Len(s) + 1 - x]]

\* the digits of bin(i) after the "0b" prefix, most significant first
RECURSIVE BinDigits(_)
BinDigits(i) == IF i < 2 THEN <<i>> ELSE BinDigits(i \div 2) \o <<i % 2>>

RECURSIVE Flatten(_)
Flatten(ss) == IF ss = <<>> THEN <<>> ELSE Head(ss) \o Flatten(Tail(ss))

(***************************************************************************)
(* from_dict_to_list_bids                                                  *)
(***************************************************************************)
from_dict_to_list_bids(d) ==
    Flatten([e \in 1..Len(d) |->
                [x \in 1..Len(d[e].vals) |->
                    <<d[e].bidder, d[e].vals[x].itemset, d[e].vals[x].value>>]])

(***************************************************************************)
(* pairwise_disjoint: each element against the running union               *)
(***************************************************************************)
\* variant: each element is tested against the previous one only
RECURSIVE pairwise_disjoint_loop_prev(_, _, _)
pairwise_disjoint_loop_prev(sets, idx, already_assigned) ==
    IF idx > Len(sets) THEN TRUE
    ELSE LET elem == sets[idx]
             intersection == already_assigned \cap elem
         IN IF Cardinality(intersection) > 0 THEN FALSE
            ELSE pairwise_disjoint_loop_prev(sets, idx + 1, elem)

RECURSIVE pairwise_disjoint_loop(_, _, _)
pairwise_disjoint_loop(sets, idx, already_assigned) ==
    IF idx > Len(sets) THEN TRUE
    ELSE LET elem == sets[idx]
             intersection == already_assigned \cap elem
         IN IF Cardinality(intersection) > 0 THEN FALSE
            ELSE pairwise_disjoint_loop(sets, idx + 1, already_assigned \cup elem)

pairwise_disjoint(sets) == pairwise_disjoint_loop(sets, 2, sets[1])

(***************************************************************************)
(* is_admissible                                                           *)
(***************************************************************************)
\* variant: the test "bidder in bidders" is missing
RECURSIVE is_admissible_loop_no_bidder_check(_, _, _, _)
is_admissible_loop_no_bidder_check(alloc, idx, bidders, sets) ==
    IF idx > Len(alloc) THEN [ok |-> TRUE, sets |-> sets]
    ELSE is_admissible_loop_no_bidder_check(alloc, idx + 1,
             Append(bidders, alloc[idx][1]), Append(sets, alloc[idx][2]))

\* the for loop: [ok |-> FALSE] on the early return, else the collected sets
RECURSIVE is_admissible_loop(_, _, _, _)
is_admissible_loop(alloc, idx, bidders, sets) ==
    IF idx > Len(alloc) THEN [ok |-> TRUE, sets |-> sets]
    ELSE LET bidder == alloc[idx][1]
         IN IF \E x \in 1..Len(bidders) : bidders[x] = bidder
            THEN [ok |-> FALSE, sets |-> sets]
            ELSE is_admissible_loop(alloc, idx + 1, Append(bidders, bidder),
                                    Append(sets, alloc[idx][2]))

is_admissible(alloc) ==
    LET r == is_admissible_loop(alloc, 1, <<>>, <<>>)
    IN IF ~r.ok THEN FALSE
       ELSE IF Len(r.sets) > 0 /\ ~pairwise_disjoint(r.sets) THEN FALSE
       ELSE TRUE

(***************************************************************************)
(* compute_allocation_value                                                *)
(***************************************************************************)
RECURSIVE compute_allocation_value(_)
compute_allocation_value(alloc) ==
    IF alloc = <<>> THEN 0
    ELSE alloc[1][3] + compute_allocation_value(Tail(alloc))

(***************************************************************************)
(* compute_winner                                                          *)
(***************************************************************************)
\* variant: digit j selects bids_list[j]
RECURSIVE candidate_loop_forward(_, _, _, _)
candidate_loop_forward(bids_list, bin_i, j, cand) ==
    IF j >= Len(bin_i) THEN cand
    ELSE candidate_loop_forward(bids_list, bin_i, j + 1,
             IF bin_i[j + 1] = 1
             THEN Append(cand, bids_list[j + 1])
             ELSE cand)

\* "for j in range(len(bin_i))": bin_i[j] is the digit of weight 2^j
RECURSIVE candidate_loop(_, _, _, _)
candidate_loop(bids_list, bin_i, j, cand) ==
    IF j >= Len(bin_i) THEN cand
    ELSE candidate_loop(bids_list, bin_i, j + 1,
             IF bin_i[j + 1] = 1
             THEN Append(cand, bids_list[(Len(bids_list) - 1 - j) + 1])
             ELSE cand)

candidate_allocation(bids_list, i) ==
    candidate_loop(bids_list, Reverse(BinDigits(i)), 0, <<>>)

\* variant: the comparison is <= instead of >=
compute_winner_step_lowest(st, bids_list, i) ==
    LET cand == candidate_allocation(bids_list, i)
    IN IF is_admissible(cand)
       THEN LET candidate_allocation_value == compute_allocation_value(cand)
            IN IF candidate_allocation_value <= st.winner_value
               THEN [winner |-> cand, bound |-> TRUE,
                     winner_value |-> candidate_allocation_value]
               ELSE st
       ELSE st

\* variant: the comparison is > instead of >=
compute_winner_step_strict(st, bids_list, i) ==
    LET cand == candidate_allocation(bids_list, i)
    IN IF is_admissible(cand)
       THEN LET candidate_allocation_value == compute_allocation_value(cand)
            IN IF candidate_allocation_value > st.winner_value
               THEN [winner |-> cand, bound |-> TRUE,
                     winner_value |-> candidate_allocation_value]
               ELSE st
       ELSE st

\* variant: candidate_allocation is cleared and refilled in place instead of
\* rebound to a new list, so the name winner follows every later candidate
compute_winner_step_aliased(st, bids_list, i) ==
    LET cand == candidate_allocation(bids_list, i)
    IN IF is_admissible(cand)
       THEN LET candidate_allocation_value == compute_allocation_value(cand)
            IN IF candidate_allocation_value >= st.winner_value
               THEN [winner |-> cand, bound |-> TRUE,
                     winner_value |-> candidate_allocation_value]
               ELSE [st EXCEPT !.winner = IF st.bound THEN cand ELSE st.winner]
       ELSE [st EXCEPT !.winner = IF st.bound THEN cand ELSE st.winner]

\* one iteration of "for i in range(0, 2**n)"; st.bound says whether the
\* local name winner has been assigned
compute_winner_step(st, bids_list, i) ==
    LET cand == candidate_allocation(bids_list, i)
    IN IF is_admissible(cand)
       THEN LET candidate_allocation_value == compute_allocation_value(cand)
            IN IF candidate_allocation_value >= st.winner_value
               THEN [winner |-> cand, bound |-> TRUE,
                     winner_value |-> candidate_allocation_value]
               ELSE st
       ELSE st

\* iterations lo .. hi-1 in order (the first half is evaluated before the
\* second is entered; both branches of the test are the same call)
RECURSIVE compute_winner_range(_, _, _, _)
compute_winner_range(st, bids_list, lo, hi) ==
    IF hi <= lo THEN st
    ELSE IF hi = lo + 1 THEN compute_winner_step(st, bids_list, lo)
    ELSE LET mid == (lo + hi) \div 2
             half == compute_winner_range(st, bids_list, lo, mid)
         IN IF half.bound
            THEN compute_winner_range(half, bids_list, mid, hi)
            ELSE compute_winner_range(half, bids_list, mid, hi)

\* variant: range(0, 2**n - 1), the subset of all bids is never examined
compute_winner_short_range(d) ==
    LET bids_list == from_dict_to_list_bids(d)
        n == Len(bids_list)
        st0 == [winner |-> <<>>, bound |-> FALSE, winner_value |-> 0]
        st == compute_winner_range(st0, bids_list, 0, Pow2(n) - 1)
    IN [winner |-> st.winner, winner_value |-> st.winner_value,
        raised |-> ~st.bound]

\* returning an unassigned winner raises UnboundLocalError
compute_winner(d) ==
    LET bids_list == from_dict_to_list_bids(d)
        n == Len(bids_list)
        st0 == [winner |-> <<>>, bound |-> FALSE, winner_value |-> 0]
        st == compute_winner_range(st0, bids_list, 0, Pow2(n))
    IN [winner |-> st.winner, winner_value |-> st.winner_value,
        raised |-> ~st.bound]

(***************************************************************************)
(* VCG_auction                                                             *)
(***************************************************************************)
\* variant: the del statement is missing
del_player_keep(d, player) == d

\* variant: the first key of the dict is deleted instead of the player's
del_player_first(d, player) == IF d = <<>> THEN d ELSE Tail(d)

\* bids_without_player = cp.deepcopy(bids); del bids_without_player[player]
del_player(d, player) == SelectSeq(d, LAMBDA e : e.bidder # player)

\* variant: bids_without_player = bids, without the deep copy; the two names
\* are one dict and the del is seen through both
deepcopy_del_alias(d, player) ==
    [bids |-> del_player(d, player),
     bids_without_player |-> del_player(d, player)]

\* bids_without_player = cp.deepcopy(bids); del bids_without_player[player]
\* what the two names hold afterwards: the del acts on the copy only
deepcopy_del(d, player) ==
    [bids |-> d,
     bids_without_player |-> del_player(d, player)]

\* variant: the player's own value is summed too
RECURSIVE omega_star_loop_all(_, _, _, _, _)
omega_star_loop_all(omega, idx, player, summation, vcg_itemset) ==
    IF idx > Len(omega) THEN [summation |-> summation, vcg_itemset |-> vcg_itemset]
    ELSE omega_star_loop_all(omega, idx + 1, player, summation + omega[idx][3],
             IF omega[idx][1] # player THEN vcg_itemset
             ELSE Append(vcg_itemset, omega[idx][2]))

\* variant: the test is "bidder == player"
RECURSIVE omega_star_loop_inverted(_, _, _, _, _)
omega_star_loop_inverted(omega, idx, player, summation, vcg_itemset) ==
    IF idx > Len(omega) THEN [summation |-> summation, vcg_itemset |-> vcg_itemset]
    ELSE IF omega[idx][1] = player
    THEN omega_star_loop_inverted(omega, idx + 1, player,
                                  summation + omega[idx][3], vcg_itemset)
    ELSE omega_star_loop_inverted(omega, idx + 1, player, summation,
                                  Append(vcg_itemset, omega[idx][2]))

\* variant: "summation_omega_star_minus_player -= value"
RECURSIVE omega_star_loop_minus(_, _, _, _, _)
omega_star_loop_minus(omega, idx, player, summation, vcg_itemset) ==
    IF idx > Len(omega) THEN [summation |-> summation, vcg_itemset |-> vcg_itemset]
    ELSE IF omega[idx][1] # player
    THEN omega_star_loop_minus(omega, idx + 1, player,
                               summation - omega[idx][3], vcg_itemset)
    ELSE omega_star_loop_minus(omega, idx + 1, player, summation,
                               Append(vcg_itemset, omega[idx][2]))

\* "for bidder, itemset, value in omega_star": the sum over the other
\* bidders and the itemsets of the player
RECURSIVE omega_star_loop(_, _, _, _, _)
omega_star_loop(omega, idx, player, summation, vcg_itemset) ==
    IF idx > Len(omega) THEN [summation |-> summation, vcg_itemset |-> vcg_itemset]
    ELSE IF omega[idx][1] # player
    THEN omega_star_loop(omega, idx + 1, player, summation + omega[idx][3], vcg_itemset)
    ELSE omega_star_loop(omega, idx + 1, player, summation,
                         Append(vcg_itemset, omega[idx][2]))

(***************************************************************************)
(* Explored inputs                                                         *)
(***************************************************************************)
Min(x, y) == IF x < y THEN x ELSE y

\* the value dicts with k entries: k distinct itemsets in insertion order
ValDicts(k) ==
    {s \in [1..k -> [itemset : Bundles, value : Values]] :
        \A x, y \in 1..k : x # y => s[x].itemset # s[y].itemset}

\* the bidders are opaque keys compared only for equality, so the bidder
\* inserted x-th is called BidderNames[x]; a profile has 0 to 3 bidders and
\* at most MaxBids bids in total
IsBoundedProfile(d) ==
    \E nb \in 0..Len(BidderNames), k1, k2, k3 \in 0..Min(MaxBids, Cardinality(Bundles)) :
        /\ k1 + k2 + k3 <= MaxBids
        /\ nb < 1 => k1 = 0
        /\ nb < 2 => k2 = 0
        /\ nb < 3 => k3 = 0
        /\ \E d1 \in ValDicts(k1), d2 \in ValDicts(k2), d3 \in ValDicts(k3) :
              d = SubSeq(<< [bidder |-> BidderNames[1], vals |-> d1],
                            [bidder |-> BidderNames[2], vals |-> d2],
                            [bidder |-> BidderNames[3], vals |-> d3] >>, 1, nb)

\* the notebook's profile v
WorkedDataset ==
    << [bidder |-> "a", vals |-> << [itemset |-> {"A"}, value |-> 2],
                                    [itemset |-> {"A", "B"}, value |-> 5],
                                    [itemset |-> {"B"}, value |-> 2],
                                    [itemset |-> {"D"}, value |-> 7] >>],
       [bidder |-> "b", vals |-> << [itemset |-> {"C"}, value |-> 10],
                                    [itemset |-> {"D"}, value |-> 8] >>],
       [bidder |-> "c", vals |-> << [itemset |-> {"C", "D"}, value |-> 15],
                                    [itemset |-> {"D"}, value |-> 10] >>],
       [bidder |-> "d", vals |-> << [itemset |-> {"B", "C"}, value |-> 10],
                                    [itemset |-> {"B"}, value |-> 8] >>],
       [bidder |-> "e", vals |-> << [itemset |-> {"A", "B"}, value |-> 11],
                                    [itemset |-> {"A", "B", "C", "D"}, value |-> 20] >>] >>

\* two bidders competing for one item
TwoBidderProfile ==
    << [bidder |-> "a", vals |-> << [itemset |-> {"A"}, value |-> 5] >>],
       [bidder |-> "b", vals |-> << [itemset |-> {"A"}, value |-> 3] >>] >>

\* profiles holding a malformed bid: a negative value, an empty bundle
NegativeValueProfile ==
    << [bidder |-> "a", vals |-> << [itemset |-> {"A"}, value |-> -1] >>],
       [bidder |-> "b", vals |-> << [itemset |-> {"B"}, value |-> 2] >>] >>

EmptyBundleProfile ==
    << [bidder |-> "a", vals |-> << [itemset |-> {}, value |-> 3] >>],
       [bidder |-> "b", vals |-> << [itemset |-> {"A"}, value |-> 1] >>] >>

(***************************************************************************)
(* The run of VCG_auction(bids)                                            *)
(***************************************************************************)
Init ==
    /\ \/ IsBoundedProfile(bids)
       \/ bids \in {WorkedDataset, TwoBidderProfile,
                    NegativeValueProfile, EmptyBundleProfile}
    /\ pc = "call"
    /\ omega_star = <<>>
    /\ winner_value = 0
    /\ raised = FALSE
    /\ player_idx = 0
    /\ bids_without_player = <<>>
    /\ omega_minus_player = <<>>
    /\ v_omega_minus_player = 0
    /\ summation_omega_star_minus_player = 0
    /\ vcg = <<>>
    /\ allocation = <<>>
    /\ adm_pc = "idle"
    /\ admissible = FALSE
    /\ TwiceIdle /\ RestIdle /\ CWIdle /\ GSIdle /\ SHIdle

\* vcg = []; omega_star, winner_value = compute_winner(bids)
VCGStart ==
    /\ pc = "call"
    /\ \E r \in {compute_winner(bids)} :
          /\ omega_star' = r.winner
          /\ winner_value' = r.winner_value
          /\ raised' = r.raised
          /\ pc' = IF r.raised THEN "raised" ELSE "loop"
    /\ player_idx' = 1
    /\ vcg' = <<>>
    /\ UNCHANGED <<bids, bids_without_player, omega_minus_player,
                   v_omega_minus_player, summation_omega_star_minus_player>>
    /\ UNCHANGED <<adm_vars, twice_vars, rest_vars, cw_vars, gs_vars, sh_vars>>

\* one iteration of "for player in bids"
VCGPlayer ==
    /\ pc = "loop"
    /\ player_idx <= Len(bids)
    /\ \E player \in {bids[player_idx].bidder} :
       \E copied \in {deepcopy_del(bids, player)} :
       \E without \in {copied.bids_without_player} :
       \E r \in {compute_winner(without)} :
       \E l \in {omega_star_loop(omega_star, 1, player, 0, <<>>)} :
       LET vcg_value == r.winner_value - l.summation
       IN /\ bids' = copied.bids
          /\ bids_without_player' = without
          /\ omega_minus_player' = r.winner
          /\ v_omega_minus_player' = r.winner_value
          /\ raised' = r.raised
          /\ summation_omega_star_minus_player' =
                 IF r.raised THEN summation_omega_star_minus_player ELSE l.summation
          /\ vcg' = IF r.raised THEN vcg
                    ELSE Append(vcg, <<player, l.vcg_itemset, vcg_value>>)
          /\ pc' = IF r.raised THEN "raised" ELSE "loop"
    /\ player_idx' = player_idx + 1
    /\ UNCHANGED <<omega_star, winner_value>>
    /\ UNCHANGED <<adm_vars, twice_vars, rest_vars, cw_vars, gs_vars, sh_vars>>

\* return vcg
VCGReturn ==
    /\ pc = "loop"
    /\ player_idx > Len(bids)
    /\ pc' = "done"
    /\ UNCHANGED <<bids, omega_star, winner_value, raised, player_idx,
                   bids_without_player, omega_minus_player, v_omega_minus_player,
                   summation_omega_star_minus_player, vcg>>
    /\ UNCHANGED <<adm_vars, twice_vars, rest_vars, cw_vars, gs_vars, sh_vars>>

Next == VCGStart \/ VCGPlayer \/ VCGReturn

Spec == Init /\ [][Next]_vars

(***************************************************************************)
(* VCG_auction called a second time on the same dict object: the call's    *)
(* locals are fresh, the dict is whatever the first call left.  first_run  *)
(* keeps what the first call computed and returned.                        *)
(***************************************************************************)
VCGAgain ==
    /\ pc = "done"
    /\ run = 1
    /\ first_run' = <<omega_star, winner_value, vcg>>
    /\ run' = 2
    /\ pc' = "call"
    /\ omega_star' = <<>>
    /\ winner_value' = 0
    /\ player_idx' = 0
    /\ bids_without_player' = <<>>
    /\ omega_minus_player' = <<>>
    /\ v_omega_minus_player' = 0
    /\ summation_omega_star_minus_player' = 0
    /\ vcg' = <<>>
    /\ UNCHANGED <<bids, raised>>
    /\ UNCHANGED <<adm_vars, rest_vars, cw_vars, gs_vars, sh_vars>>

NextTwice == VCGStart \/ VCGPlayer \/ VCGReturn \/ VCGAgain

SpecTwice == Init /\ [][NextTwice]_vars

(***************************************************************************)
(* is_admissible called on its own, on any list of bids                    *)
(***************************************************************************)
\* is_admissible never reads bid[2]; one value is enough
CandidateLists ==
    UNION {[1..k -> {<<b, S, 1>> : b \in {BidderNames[x] : x \in DOMAIN BidderNames},
                                   S \in SUBSET Items}] :
           k \in 0..MaxCand}

InitAdm ==
    /\ allocation \in CandidateLists
    /\ adm_pc = "call"
    /\ admissible = FALSE
    /\ bids = <<>>
    /\ pc = "idle"
    /\ omega_star = <<>>
    /\ winner_value = 0
    /\ raised = FALSE
    /\ player_idx = 0
    /\ bids_without_player = <<>>
    /\ omega_minus_player = <<>>
    /\ v_omega_minus_player = 0
    /\ summation_omega_star_minus_player = 0
    /\ vcg = <<>>
    /\ TwiceIdle /\ RestIdle /\ CWIdle /\ GSIdle /\ SHIdle

IsAdmissibleCall ==
    /\ adm_pc = "call"
    /\ admissible' = is_admissible(allocation)
    /\ adm_pc' = "returned"
    /\ UNCHANGED allocation
    /\ UNCHANGED <<vcg_vars, twice_vars, rest_vars, cw_vars, gs_vars, sh_vars>>

NextAdm == IsAdmissibleCall

SpecAdm == InitAdm /\ [][NextAdm]_vars

(***************************************************************************)
(* Vocabulary of the properties: bids as a set, admissible sets of bids    *)
(***************************************************************************)
\* the bids of a profile, as a set of <<bidder, itemset, value>>
BidSet(d) ==
    UNION {{<<d[e].bidder, d[e].vals[x].itemset, d[e].vals[x].value>> :
                x \in DOMAIN d[e].vals} : e \in DOMAIN d}

\* at most one bid per bidder, pairwise-disjoint bundles
AdmissibleSet(S) ==
    \A b1, b2 \in S : b1 # b2 => b1[1] # b2[1] /\ b1[2] \cap b2[2] = {}

RECURSIVE TotalValue(_)
TotalValue(S) ==
    IF S = {} THEN 0
    ELSE LET b == CHOOSE b \in S : TRUE IN b[3] + TotalValue(S \ {b})

NonNegative(d) == \A b \in BidSet(d) : b[3] >= 0

\* the largest total value of an admissible set of bids of d
MaxAdmissibleValue(d) ==
    LET vs == {TotalValue(S) : S \in {T \in SUBSET BidSet(d) : AdmissibleSet(T)}}
    IN CHOOSE v \in vs : \A w \in vs : w <= v

\* the profile d without the entry of bidder i: the other entries, unchanged
\* and in their order
ProfileWithout(d, i) ==
    LET keep == {e \in DOMAIN d : d[e].bidder # i}
    IN [x \in 1..Cardinality(keep) |->
           d[CHOOSE e \in keep : Cardinality({f \in keep : f <= e}) = x]]

\* the bids of an allocation (a list) as a set
Range(s) == {s[x] : x \in DOMAIN s}

\* the value the optimal allocation gives to the bidders other than i
ValueToOthers(omega, i) == TotalValue({b \in Range(omega) : b[1] # i})

\* the bundles the allocation gives to bidder i
BundlesOf(omega, i) == {b[2] : b \in {c \in Range(omega) : c[1] = i}}

Bidders(d) == {d[e].bidder : e \in DOMAIN d}
ValsOf(d, i) == (CHOOSE e \in Range(d) : e.bidder = i).vals

\* the engine has returned for the full profile
WinnerKnown == pc \in {"loop", "done"}

(***************************************************************************)
(* C1. Optimality: with non-negative values, the value compute_winner      *)
(* returns is at least the total value of every admissible set of bids of  *)
(* the profile it was given (the full profile, and each reduced profile).  *)
(***************************************************************************)
C1_Optimality ==
    /\ (WinnerKnown /\ NonNegative(bids)) =>
          \A S \in SUBSET BidSet(bids) :
              AdmissibleSet(S) => winner_value >= TotalValue(S)
    /\ (WinnerKnown /\ player_idx > 1 /\ NonNegative(bids_without_player)) =>
          \A S \in SUBSET BidSet(bids_without_player) :
              AdmissibleSet(S) => v_omega_minus_player >= TotalValue(S)

\* the optimum is an allocation of two bids, and some inadmissible set of
\* bids has a larger total than it
C1_Witness ==
    /\ pc = "done"
    /\ NonNegative(bids)
    /\ Len(omega_star) >= 2
    /\ \E S \in SUBSET BidSet(bids) :
          ~AdmissibleSet(S) /\ TotalValue(S) > winner_value

(***************************************************************************)
(* C2. Admissibility of the result: in every allocation compute_winner     *)
(* returns no bidder occurs in two bids and the bundles of two distinct    *)
(* bids are disjoint.                                                      *)
(***************************************************************************)
AdmissibleList(omega) ==
    \A x, y \in DOMAIN omega :
        x # y => omega[x][1] # omega[y][1] /\ omega[x][2] \cap omega[y][2] = {}

C2_ResultAdmissible ==
    /\ WinnerKnown => AdmissibleList(omega_star)
    /\ (WinnerKnown /\ player_idx > 1) => AdmissibleList(omega_minus_player)

\* two bids were allocated although a bidder has two bids of positive value
\* and two bidders bid on overlapping bundles
C2_Witness ==
    /\ pc = "done"
    /\ Len(omega_star) >= 2
    /\ \E b1, b2 \in BidSet(bids) :
          b1 # b2 /\ b1[1] = b2[1] /\ b1[3] > 0 /\ b2[3] > 0
    /\ \E b1, b2 \in BidSet(bids) :
          b1[1] # b2[1] /\ b1[2] \cap b2[2] # {} /\ b1[3] > 0 /\ b2[3] > 0

(***************************************************************************)
(* C3. The payment reported for bidder i is V(w_-i) - S: V(w_-i) the value *)
(* compute_winner returns on the profile with exactly the entry of i       *)
(* removed, S the value of the bids of omega_star that belong to bidders   *)
(* other than i.  (Each entry is examined when it has just been appended,  *)
(* and all of them when the function has returned.)                        *)
(***************************************************************************)
C3_PaymentFormula ==
    WinnerKnown =>
        \A k \in DOMAIN vcg :
            (pc = "done" \/ k = player_idx - 1) =>
                \A i \in {bids[k].bidder} :
                \A reduced \in {ProfileWithout(bids, i)} :
                \A v \in {compute_winner(reduced).winner_value} :
                \A S \in {ValueToOthers(omega_star, i)} :
                    /\ vcg[k][1] = i
                    /\ vcg[k][3] = v - S
                    /\ k = player_idx - 1 =>
                          /\ bids_without_player = reduced
                          /\ v_omega_minus_player = v
                          /\ summation_omega_star_minus_player = S

\* three bidders; one of them wins, pays, and the optimum without it is
\* smaller than the optimum, while another bidder wins too
C3_Witness ==
    /\ pc = "done"
    /\ Len(bids) = 3
    /\ \E k \in DOMAIN vcg :
          /\ vcg[k][2] # <<>>
          /\ vcg[k][3] > 0
          /\ compute_winner(ProfileWithout(bids, bids[k].bidder)).winner_value
                < winner_value
          /\ ValueToOthers(omega_star, bids[k].bidder) > 0

(***************************************************************************)
(* C4. Non-negativity: when all bid values of the profile are              *)
(* non-negative, every payment computed by VCG_auction is >= 0.            *)
(***************************************************************************)
C4_NonNegativePayments ==
    (WinnerKnown /\ NonNegative(bids)) => \A k \in DOMAIN vcg : vcg[k][3] >= 0

\* a pivotal winner: it pays, and without it the others would get more
C4_Witness ==
    /\ pc = "done"
    /\ NonNegative(bids)
    /\ \E k \in DOMAIN vcg :
          /\ vcg[k][3] > 0
          /\ vcg[k][2] # <<>>
          /\ MaxAdmissibleValue(ProfileWithout(bids, bids[k].bidder)) < winner_value

(***************************************************************************)
(* C5. is_admissible(candidate) is True exactly when no bidder appears in  *)
(* more than one bid of the candidate and the bundles of its bids are      *)
(* pairwise disjoint; it is True for the empty candidate.                  *)
(***************************************************************************)
C5_IsAdmissibleIff ==
    adm_pc = "returned" =>
        /\ admissible <=>
              /\ \A x, y \in DOMAIN allocation :
                    x # y => allocation[x][1] # allocation[y][1]
              /\ \A x, y \in DOMAIN allocation :
                    x # y => allocation[x][2] \cap allocation[y][2] = {}
        /\ allocation = <<>> => admissible

\* three distinct bidders, the first and the third bundle overlap, and
\* neither overlaps the second: only the running union catches it
C5_Witness ==
    /\ adm_pc = "returned"
    /\ ~admissible
    /\ Len(allocation) = 3
    /\ \A x, y \in DOMAIN allocation : x # y => allocation[x][1] # allocation[y][1]
    /\ allocation[1][2] \cap allocation[2][2] = {}
    /\ allocation[2][2] \cap allocation[3][2] = {}
    /\ allocation[2][2] # {}
    /\ allocation[1][2] \cap allocation[3][2] # {}

(***************************************************************************)
(* C6. The worked dataset: compute_winner returns e:{A,B}=11, c:{D}=10,    *)
(* b:{C}=10 with value 31; VCG_auction returns the payments a:0, b:5, c:7, *)
(* d:0, e:10 with the bundles a:none, b:{C}, c:{D}, d:none, e:{A,B}.       *)
(***************************************************************************)
C6_WorkedDataset ==
    bids = WorkedDataset =>
        /\ WinnerKnown =>
              /\ omega_star = << <<"e", {"A", "B"}, 11>>,
                                 <<"c", {"D"}, 10>>,
                                 <<"b", {"C"}, 10>> >>
              /\ winner_value = 31
        /\ pc = "done" =>
              vcg = << <<"a", <<>>, 0>>,
                       <<"b", <<{"C"}>>, 5>>,
                       <<"c", <<{"D"}>>, 7>>,
                       <<"d", <<>>, 0>>,
                       <<"e", <<{"A", "B"}>>, 10>> >>

C6_Witness == bids = WorkedDataset /\ pc = "done" /\ Len(vcg) = 5

(***************************************************************************)
(* C7. Two bidders for one item, a:{A}->5 and b:{A}->3: compute_winner     *)
(* returns {(a,{A},5)} with value 5, the optimum without a is {(b,{A},3)}  *)
(* with value 3, a pays 3, b pays 0 and b is awarded nothing.              *)
(***************************************************************************)
C7_TwoBidders ==
    bids = TwoBidderProfile =>
        /\ WinnerKnown => omega_star = << <<"a", {"A"}, 5>> >> /\ winner_value = 5
        /\ (pc = "loop" /\ player_idx = 2) =>
              /\ omega_minus_player = << <<"b", {"A"}, 3>> >>
              /\ v_omega_minus_player = 3
        /\ pc = "done" =>
              vcg = << <<"a", <<{"A"}>>, 3>>, <<"b", <<>>, 0>> >>

C7_Witness == bids = TwoBidderProfile /\ pc = "done" /\ Len(vcg) = 2

(***************************************************************************)
(* C8. A bidder with no bid in the optimal allocation omega_star, and whose        *)
(* removal leaves the optimum value equal to the optimum value, pays 0.                *)
(***************************************************************************)
C8_LoserPaysZero ==
    WinnerKnown =>
        \A k \in DOMAIN vcg :
            LET i == bids[k].bidder
            IN (/\ BundlesOf(omega_star, i) = {}
                /\ MaxAdmissibleValue(ProfileWithout(bids, i)) = winner_value)
               => vcg[k][3] = 0

\* such a bidder with a bid of positive value, next to a winner who pays
C8_Witness ==
    /\ pc = "done"
    /\ \E k \in DOMAIN vcg :
          /\ BundlesOf(omega_star, bids[k].bidder) = {}
          /\ MaxAdmissibleValue(ProfileWithout(bids, bids[k].bidder)) = winner_value
          /\ \E x \in DOMAIN bids[k].vals : bids[k].vals[x].value > 0
          /\ vcg[k][3] = 0
    /\ \E k \in DOMAIN vcg : vcg[k][3] > 0

(***************************************************************************)
(* C9. For a bidder present in the profile with an empty bid set,          *)
(* VCG_auction completes without error and reports payment 0 and an empty  *)
(* list of awarded bundles.                                                *)
(***************************************************************************)
HasEmptyBidder(d) == \E e \in DOMAIN d : d[e].vals = <<>>

C9_EmptyBidder ==
    HasEmptyBidder(bids) =>
        /\ ~raised /\ pc # "raised"
        /\ WinnerKnown =>
              \A k \in DOMAIN vcg :
                  bids[k].vals = <<>> => vcg[k] = <<bids[k].bidder, <<>>, 0>>
        /\ pc = "done" => Len(vcg) = Len(bids)

\* the run is over, the bidder without bids stands between two bidders with
\* bids, and somebody pays
C9_Witness ==
    /\ pc = "done"
    /\ Len(bids) = 3
    /\ bids[2].vals = <<>>
    /\ bids[1].vals # <<>> /\ bids[3].vals # <<>>
    /\ vcg[2] = <<bids[2].bidder, <<>>, 0>>
    /\ \E k \in DOMAIN vcg : vcg[k][3] > 0

(***************************************************************************)
(* C10. Degenerate input.  As claimed: with zero bidders, or with bidders  *)
(* but zero bids in total, compute_winner returns the empty allocation     *)
(* with value 0 and VCG_auction returns an empty payment vector.           *)
(***************************************************************************)
C10_Original ==
    BidSet(bids) = {} =>
        /\ ~raised /\ pc # "raised"
        /\ WinnerKnown => omega_star = <<>> /\ winner_value = 0
        /\ pc = "done" => vcg = <<>>

(***************************************************************************)
(* C10 as amended: with zero bidders, or with bidders but zero bids in     *)
(* total, the mechanism does not fail and compute_winner returns the empty *)
(* allocation with value 0; VCG_auction returns one entry per bidder, with *)
(* no bundle and payment 0, which is the empty payment vector exactly when *)
(* there are zero bidders.                                                 *)
(***************************************************************************)
C10_Degenerate ==
    BidSet(bids) = {} =>
        /\ ~raised /\ pc # "raised"
        /\ WinnerKnown => omega_star = <<>> /\ winner_value = 0
        /\ (WinnerKnown /\ player_idx > 1) =>
              omega_minus_player = <<>> /\ v_omega_minus_player = 0
        /\ pc = "done" =>
              /\ vcg = [k \in DOMAIN bids |-> <<bids[k].bidder, <<>>, 0>>]
              /\ (vcg = <<>> <=> bids = <<>>)

\* a run to the end on two bidders who both submitted no bid
C10_Witness ==
    /\ pc = "done"
    /\ BidSet(bids) = {}
    /\ Len(bids) = 2
    /\ Len(vcg) = 2

(***************************************************************************)
(* A call of compute_winner(bids), one iteration of its for loop at a      *)
(* time.  cw_i is the loop variable i (-1 before the first iteration) and  *)
(* cw_candidate the candidate_allocation built in that iteration.          *)
(***************************************************************************)
InitCW ==
    /\ \/ IsBoundedProfile(bids)
       \/ bids \in {TwoBidderProfile, NegativeValueProfile, EmptyBundleProfile}
    /\ pc = "idle"
    /\ omega_star = <<>>
    /\ winner_value = 0
    /\ raised = FALSE
    /\ player_idx = 0
    /\ bids_without_player = <<>>
    /\ omega_minus_player = <<>>
    /\ v_omega_minus_player = 0
    /\ summation_omega_star_minus_player = 0
    /\ vcg = <<>>
    /\ cw_pc = "call"
    /\ cw_bids_list = <<>>
    /\ cw_i = 0
    /\ cw_candidate = <<>>
    /\ cw_winner = <<>>
    /\ cw_bound = FALSE
    /\ cw_winner_value = 0
    /\ cw_examined = <<>>
    /\ AdmIdle /\ TwiceIdle /\ RestIdle /\ GSIdle /\ SHIdle

\* bids_list = from_dict_to_list_bids(bids); n = len(bids_list);
\* winner_value = 0
CWStart ==
    /\ cw_pc = "call"
    /\ cw_bids_list' = from_dict_to_list_bids(bids)
    /\ cw_winner_value' = 0
    /\ cw_i' = -1
    /\ cw_pc' = "for"
    /\ UNCHANGED <<cw_candidate, cw_winner, cw_bound, cw_examined>>
    /\ UNCHANGED <<vcg_vars, adm_vars, twice_vars, rest_vars, gs_vars, sh_vars>>

\* the body of "for i in range(0, 2**n)" for the next i
CWIterate ==
    /\ cw_pc = "for"
    /\ cw_i + 1 < Pow2(Len(cw_bids_list))
    /\ cw_i' = cw_i + 1
    /\ cw_candidate' = candidate_allocation(cw_bids_list, cw_i + 1)
    /\ cw_examined' = Append(cw_examined, cw_candidate')
    /\ \E st \in {compute_winner_step(
                      [winner |-> cw_winner, bound |-> cw_bound,
                       winner_value |-> cw_winner_value],
                      cw_bids_list, cw_i + 1)} :
          /\ cw_winner' = st.winner
          /\ cw_bound' = st.bound
          /\ cw_winner_value' = st.winner_value
    /\ UNCHANGED <<cw_pc, cw_bids_list>>
    /\ UNCHANGED <<vcg_vars, adm_vars, twice_vars, rest_vars, gs_vars, sh_vars>>

\* return winner, winner_value
CWReturn ==
    /\ cw_pc = "for"
    /\ cw_i + 1 = Pow2(Len(cw_bids_list))
    /\ cw_pc' = IF cw_bound THEN "done" ELSE "raised"
    /\ UNCHANGED <<cw_bids_list, cw_i, cw_candidate, cw_winner, cw_bound,
                   cw_winner_value, cw_examined>>
    /\ UNCHANGED <<vcg_vars, adm_vars, twice_vars, rest_vars, gs_vars, sh_vars>>

NextCW == CWStart \/ CWIterate \/ CWReturn

SpecCW == InitCW /\ [][NextCW]_vars

\* the call is a sequential loop that nothing suspends: a step that can be
\* taken is taken
SpecCWFair == SpecCW /\ WF_vars(NextCW)

(***************************************************************************)
(* gale_shapley (notebook "Stable Matching").                              *)
(*                                                                         *)
(* men_preferences is a dict man -> list of women, iterated in insertion   *)
(* order: a sequence of [man |-> m, prefs |-> list].  women_preferences is *)
(* only indexed by key: a function woman -> list of men.  matches is a     *)
(* dict man -> woman or None in the men's order: a sequence of             *)
(* [man |-> m, woman |-> w] with w = "None" for None.                      *)
(***************************************************************************)
\* the explored instances have 1 .. NumPairs men and as many women
NumPairs == 2

MenNames == <<"A", "B", "C", "D">>
WomenNames == <<"W", "X", "Y", "Z">>

\* the lists that order the set S completely and strictly
Perms(S) ==
    {p \in [1..Cardinality(S) -> S] :
        \A x, y \in 1..Cardinality(S) : x # y => p[x] # p[y]}

\* the notebook's example
ExampleMen ==
    << [man |-> "A", prefs |-> <<"W", "X", "Y", "Z">>],
       [man |-> "B", prefs |-> <<"Y", "Z", "W", "X">>],
       [man |-> "C", prefs |-> <<"W", "X", "Y", "Z">>],
       [man |-> "D", prefs |-> <<"X", "Z", "W", "Y">>] >>

ExampleWomen ==
    [w \in {"W", "X", "Y", "Z"} |->
        CASE w = "W" -> <<"B", "D", "A", "C">>
          [] w = "X" -> <<"B", "C", "D", "A">>
          [] w = "Y" -> <<"A", "B", "C", "D">>
          [] w = "Z" -> <<"D", "B", "A", "C">>]

\* list.index(x)
IndexOf(list, x) == CHOOSE k \in DOMAIN list : list[k] = x

\* the position of key man in the dict ms
KeyOf(ms, man) == CHOOSE k \in DOMAIN ms : ms[k].man = man

\* variant: "matches[man_to_match] = most_preferred_woman" is missing from
\* the swap: the woman leaves her partner and the proposer stays unmatched
propose_drop_only(ms, wp, man_to_match, most_preferred_woman) ==
    IF \A k \in DOMAIN ms : ms[k].woman # most_preferred_woman
    THEN [ms EXCEPT ![KeyOf(ms, man_to_match)].woman = most_preferred_woman]
    ELSE LET first == CHOOSE k \in DOMAIN ms :
                         /\ ms[k].woman = most_preferred_woman
                         /\ \A x \in 1..(k - 1) : ms[x].woman # most_preferred_woman
             matched_man == ms[first].man
         IN IF IndexOf(wp[most_preferred_woman], man_to_match)
                 < IndexOf(wp[most_preferred_woman], matched_man)
            THEN [ms EXCEPT ![first].woman = "None"]
            ELSE ms

\* variant: "matches[matched_man] = None" is missing from the swap
propose_keep_both(ms, wp, man_to_match, most_preferred_woman) ==
    IF \A k \in DOMAIN ms : ms[k].woman # most_preferred_woman
    THEN [ms EXCEPT ![KeyOf(ms, man_to_match)].woman = most_preferred_woman]
    ELSE LET first == CHOOSE k \in DOMAIN ms :
                         /\ ms[k].woman = most_preferred_woman
                         /\ \A x \in 1..(k - 1) : ms[x].woman # most_preferred_woman
             matched_man == ms[first].man
         IN IF IndexOf(wp[most_preferred_woman], man_to_match)
                 < IndexOf(wp[most_preferred_woman], matched_man)
            THEN [ms EXCEPT ![KeyOf(ms, man_to_match)].woman = most_preferred_woman]
            ELSE ms

\* variant: the woman keeps the man she likes less
propose_inverted(ms, wp, man_to_match, most_preferred_woman) ==
    IF \A k \in DOMAIN ms : ms[k].woman # most_preferred_woman
    THEN [ms EXCEPT ![KeyOf(ms, man_to_match)].woman = most_preferred_woman]
    ELSE LET first == CHOOSE k \in DOMAIN ms :
                         /\ ms[k].woman = most_preferred_woman
                         /\ \A x \in 1..(k - 1) : ms[x].woman # most_preferred_woman
             matched_man == ms[first].man
         IN IF IndexOf(wp[most_preferred_woman], man_to_match)
                 > IndexOf(wp[most_preferred_woman], matched_man)
            THEN [ms EXCEPT ![KeyOf(ms, man_to_match)].woman = most_preferred_woman,
                            ![first].woman = "None"]
            ELSE ms

\* the if / else after the pop: the woman is free and accepts, or she is
\* matched (the for loop stops at the first man matched to her) and keeps
\* the man who comes first in her list
propose(ms, wp, man_to_match, most_preferred_woman) ==
    IF \A k \in DOMAIN ms : ms[k].woman # most_preferred_woman
    THEN [ms EXCEPT ![KeyOf(ms, man_to_match)].woman = most_preferred_woman]
    ELSE LET first == CHOOSE k \in DOMAIN ms :
                         /\ ms[k].woman = most_preferred_woman
                         /\ \A x \in 1..(k - 1) : ms[x].woman # most_preferred_woman
             matched_man == ms[first].man
         IN IF IndexOf(wp[most_preferred_woman], man_to_match)
                 < IndexOf(wp[most_preferred_woman], matched_man)
            THEN [ms EXCEPT ![KeyOf(ms, man_to_match)].woman = most_preferred_woman,
                            ![first].woman = "None"]
            ELSE ms

InitGS ==
    /\ \/ \E n \in 1..NumPairs :
             /\ men_preferences \in
                   {[k \in 1..n |-> [man |-> MenNames[k], prefs |-> f[k]]] :
                       f \in [1..n -> Perms({WomenNames[x] : x \in 1..n})]}
             /\ women_preferences \in
                   [{WomenNames[x] : x \in 1..n} ->
                       Perms({MenNames[x] : x \in 1..n})]
       \/ men_preferences = ExampleMen /\ women_preferences = ExampleWomen
    /\ men_preferences_at_call = men_preferences
    /\ gs_pc = "call"
    /\ matches = <<>>
    /\ gs_man = 0
    /\ gs_result = <<>>
    /\ VCGIdle /\ AdmIdle /\ TwiceIdle /\ RestIdle /\ CWIdle /\ SHIdle

\* matches = {i: None for i in men_preferences.keys()}
GSStart ==
    /\ gs_pc = "call"
    /\ matches' = [k \in DOMAIN men_preferences |->
                      [man |-> men_preferences[k].man, woman |-> "None"]]
    /\ gs_pc' = "while"
    /\ UNCHANGED <<men_preferences, women_preferences, gs_man, gs_result,
                   men_preferences_at_call>>
    /\ UNCHANGED <<vcg_vars, adm_vars, twice_vars, rest_vars, cw_vars, sh_vars>>

\* while None in matches.values(): true, the for loop starts
GSWhileEnter ==
    /\ gs_pc = "while"
    /\ \E k \in DOMAIN matches : matches[k].woman = "None"
    /\ gs_pc' = "for"
    /\ gs_man' = 1
    /\ UNCHANGED <<men_preferences, women_preferences, matches, gs_result,
                   men_preferences_at_call>>
    /\ UNCHANGED <<vcg_vars, adm_vars, twice_vars, rest_vars, cw_vars, sh_vars>>

\* while None in matches.values(): false; return [m for m in matches.items()]
GSReturn ==
    /\ gs_pc = "while"
    /\ \A k \in DOMAIN matches : matches[k].woman # "None"
    /\ gs_result' = [k \in DOMAIN matches |-> <<matches[k].man, matches[k].woman>>]
    /\ gs_pc' = "done"
    /\ UNCHANGED <<men_preferences, women_preferences, matches, gs_man,
                   men_preferences_at_call>>
    /\ UNCHANGED <<vcg_vars, adm_vars, twice_vars, rest_vars, cw_vars, sh_vars>>

\* one iteration of "while matches[man_to_match] is None": the man pops his
\* most preferred remaining woman (IndexError on an empty list) and proposes
GSPropose ==
    /\ gs_pc = "for"
    /\ gs_man <= Len(men_preferences)
    /\ \E man_to_match \in {men_preferences[gs_man].man} :
       \E preferences \in {men_preferences[gs_man].prefs} :
          /\ matches[KeyOf(matches, man_to_match)].woman = "None"
          /\ IF preferences = <<>>
             THEN /\ gs_pc' = "raised"
                  /\ UNCHANGED <<men_preferences, matches>>
             ELSE /\ men_preferences' =
                        [men_preferences EXCEPT ![gs_man].prefs = Tail(preferences)]
                  /\ matches' = propose(matches, women_preferences,
                                        man_to_match, Head(preferences))
                  /\ UNCHANGED gs_pc
    /\ UNCHANGED <<women_preferences, gs_man, gs_result, men_preferences_at_call>>
    /\ UNCHANGED <<vcg_vars, adm_vars, twice_vars, rest_vars, cw_vars, sh_vars>>

\* "while matches[man_to_match] is None" is false: the for loop takes the
\* next man
GSNextMan ==
    /\ gs_pc = "for"
    /\ gs_man <= Len(men_preferences)
    /\ matches[KeyOf(matches, men_preferences[gs_man].man)].woman # "None"
    /\ gs_man' = gs_man + 1
    /\ UNCHANGED <<gs_pc, men_preferences, women_preferences, matches, gs_result,
                   men_preferences_at_call>>
    /\ UNCHANGED <<vcg_vars, adm_vars, twice_vars, rest_vars, cw_vars, sh_vars>>

\* the for loop is exhausted: back to the test of the outer while
GSForEnd ==
    /\ gs_pc = "for"
    /\ gs_man > Len(men_preferences)
    /\ gs_pc' = "while"
    /\ UNCHANGED <<men_preferences, women_preferences, matches, gs_man,
                   gs_result, men_preferences_at_call>>
    /\ UNCHANGED <<vcg_vars, adm_vars, twice_vars, rest_vars, cw_vars, sh_vars>>

NextGS ==
    GSStart \/ GSWhileEnter \/ GSReturn \/ GSPropose \/ GSNextMan \/ GSForEnd

SpecGS == InitGS /\ [][NextGS]_vars

\* the call is a sequential loop that nothing suspends: a step that can be
\* taken is taken
SpecGSFair == SpecGS /\ WF_vars(NextGS)

(***************************************************************************)
(* shapley (notebook "Coalitional Games").                                 *)
(*                                                                         *)
(* A characteristic function is a dict frozenset -> worth over the         *)
(* non-empty coalitions: a sequence of [coalition |-> c, worth |-> x] in   *)
(* insertion order.  The code divides by factorial(len(n)) in floating     *)
(* point; the model carries exact numerators: every Shapley value is held  *)
(* multiplied by factorial(len(n)).                                        *)
(***************************************************************************)
\* largest worth of a coalition in the explored games
MaxWorth == 1

PlayerNames == <<"A", "B", "C">>

RECURSIVE factorial(_)
factorial(k) == IF k <= 0 THEN 1 ELSE k * factorial(k - 1)

\* the non-empty coalitions of the first k players, by size and then in the
\* order of itertools.combinations, as the notebook writes its dicts
CoalitionsOf(k) ==
    CASE k = 1 -> << {"A"} >>
      [] k = 2 -> << {"A"}, {"B"}, {"A", "B"} >>
      [] k = 3 -> << {"A"}, {"B"}, {"C"}, {"A", "B"}, {"A", "C"}, {"B", "C"},
                     {"A", "B", "C"} >>

GameOf(k, worths) ==
    [x \in DOMAIN CoalitionsOf(k) |->
        [coalition |-> CoalitionsOf(k)[x], worth |-> worths[x]]]

\* the notebook's games: the one that is not superadditive, the ice cream
NotSuperadditiveGame == GameOf(3, <<6, 12, 42, 12, 42, 42, 42>>)

IceCreamGame == GameOf(3, <<0, 0, 0, 750, 750, 0, 1000>>)

\* max(characteristic_function): the keys are compared with >, which on
\* frozensets is "proper superset"; a later key replaces the held one only
\* when it is greater
RECURSIVE python_max_loop(_, _, _)
python_max_loop(cf, idx, held) ==
    IF idx > Len(cf) THEN held
    ELSE python_max_loop(cf, idx + 1,
             IF held \subseteq cf[idx].coalition /\ held # cf[idx].coalition
             THEN cf[idx].coalition ELSE held)

python_max(cf) == python_max_loop(cf, 2, cf[1].coalition)

\* characteristic_function[c]
WorthOf(cf, c) == cf[CHOOSE k \in DOMAIN cf : cf[k].coalition = c].worth

\* "for s in coalitions_without_player: total += part1*part2", with part1
\* multiplied by factorial(len(n))
RECURSIVE shapley_value_loop(_, _, _, _, _)
shapley_value_loop(player, cf, n, todo, total) ==
    IF todo = {} THEN total
    ELSE LET s == CHOOSE c \in todo : TRUE
             part1 == factorial(Cardinality(s))
                        * factorial(Cardinality(n) - Cardinality(s) - 1)
             part2 == WorthOf(cf, s \cup {player}) - WorthOf(cf, s)
         IN shapley_value_loop(player, cf, n, todo \ {s}, total + part1 * part2)

\* coalitions_without_player holds keys of the dict only: the empty
\* coalition is not a key, so it is not among them
shapley_value(player, cf) ==
    LET coalitions_without_player ==
            {cf[k].coalition : k \in {x \in DOMAIN cf : player \notin cf[x].coalition}}
        n == python_max(cf)
    IN shapley_value_loop(player, cf, n, coalitions_without_player, 0)

InitSH ==
    /\ \/ \E k \in 1..Len(PlayerNames) :
          \E worths \in [DOMAIN CoalitionsOf(k) -> 0..MaxWorth] :
             characteristic_function = GameOf(k, worths)
       \/ characteristic_function \in {NotSuperadditiveGame, IceCreamGame}
    /\ sh_pc = "call"
    /\ sh_result = <<>>
    /\ VCGIdle /\ AdmIdle /\ TwiceIdle /\ RestIdle /\ CWIdle /\ GSIdle

\* the dict comprehension of shapley takes the next player of
\* max(characteristic_function); a frozenset is iterated in an order the
\* program does not fix
SHPlayer ==
    /\ sh_pc = "call"
    /\ \E player \in python_max(characteristic_function)
                       \ {sh_result[k][1] : k \in DOMAIN sh_result} :
          sh_result' = Append(sh_result,
                              <<player, shapley_value(player, characteristic_function)>>)
    /\ UNCHANGED <<sh_pc, characteristic_function>>
    /\ UNCHANGED <<vcg_vars, adm_vars, twice_vars, rest_vars, cw_vars, gs_vars>>

\* every player has a value: the dict is returned
SHReturn ==
    /\ sh_pc = "call"
    /\ {sh_result[k][1] : k \in DOMAIN sh_result} = python_max(characteristic_function)
    /\ sh_pc' = "done"
    /\ UNCHANGED <<characteristic_function, sh_result>>
    /\ UNCHANGED <<vcg_vars, adm_vars, twice_vars, rest_vars, cw_vars, gs_vars>>

NextSH == SHPlayer \/ SHReturn

SpecSH == InitSH /\ [][NextSH]_vars

(***************************************************************************)
(* The bidders+1 winner-determination runs of one VCG_auction(bids) call,  *)
(* each taken whole, in any order: run 0 is compute_winner(bids), run k    *)
(* is the deep copy, the del and the compute_winner of the k-th bidder's   *)
(* loop iteration.  The runs share the dict bound to bids and nothing      *)
(* else.  When all are made, the payments are put together as the loop     *)
(* does.                                                                   *)
(***************************************************************************)
InitAnyOrder ==
    /\ \/ IsBoundedProfile(bids)
       \/ bids \in {TwoBidderProfile, NegativeValueProfile, EmptyBundleProfile}
    /\ bids_at_call = bids
    /\ runs_done = {}
    /\ v_minus = <<>>
    /\ pc = "runs"
    /\ omega_star = <<>>
    /\ winner_value = 0
    /\ raised = FALSE
    /\ player_idx = 0
    /\ bids_without_player = <<>>
    /\ omega_minus_player = <<>>
    /\ v_omega_minus_player = 0
    /\ summation_omega_star_minus_player = 0
    /\ vcg = <<>>
    /\ AdmIdle /\ TwiceIdle /\ CWIdle /\ GSIdle /\ SHIdle
    /\ PDIdle /\ VoteIdle /\ IRVIdle /\ SZIdle

\* omega_star, winner_value = compute_winner(bids)
FullRun ==
    /\ pc = "runs"
    /\ 0 \notin runs_done
    /\ \E r \in {compute_winner(bids)} :
          /\ omega_star' = r.winner
          /\ winner_value' = r.winner_value
          /\ raised' = (raised \/ r.raised)
    /\ runs_done' = runs_done \cup {0}
    /\ UNCHANGED <<bids, pc, player_idx, bids_without_player, omega_minus_player,
                   v_omega_minus_player, summation_omega_star_minus_player, vcg,
                   v_minus, bids_at_call>>
    /\ UNCHANGED <<adm_vars, twice_vars, cw_vars, gs_vars, sh_vars>>
    /\ UNCHANGED <<pd_vars, vote_vars, irv_vars, sz_vars>>

\* bids_without_player = cp.deepcopy(bids); del bids_without_player[player];
\* _, v_omega_minus_player = compute_winner(bids_without_player)
\* for some player whose run is not made yet
PlayerRun ==
    /\ pc = "runs"
    /\ \E k \in DOMAIN bids_at_call \ runs_done :
       \E player \in {bids_at_call[k].bidder} :
       \E copied \in {deepcopy_del(bids, player)} :
       \E r \in {compute_winner(copied.bids_without_player)} :
          /\ bids' = copied.bids
          /\ bids_without_player' = copied.bids_without_player
          /\ omega_minus_player' = r.winner
          /\ v_omega_minus_player' = r.winner_value
          /\ raised' = (raised \/ r.raised)
          /\ v_minus' = [x \in DOMAIN v_minus \cup {k} |->
                            IF x = k THEN r.winner_value ELSE v_minus[x]]
          /\ runs_done' = runs_done \cup {k}
          /\ player_idx' = k
    /\ UNCHANGED <<pc, omega_star, winner_value,
                   summation_omega_star_minus_player, vcg, bids_at_call>>
    /\ UNCHANGED <<adm_vars, twice_vars, cw_vars, gs_vars, sh_vars>>
    /\ UNCHANGED <<pd_vars, vote_vars, irv_vars, sz_vars>>

\* every run is made: the summations, the subtractions and the appends of
\* the loop, in the order of the bidders
Assemble ==
    /\ pc = "runs"
    /\ runs_done = {0} \cup DOMAIN bids_at_call
    /\ vcg' = [k \in DOMAIN bids_at_call |->
                  LET player == bids_at_call[k].bidder
                      l == omega_star_loop(omega_star, 1, player, 0, <<>>)
                  IN <<player, l.vcg_itemset, v_minus[k] - l.summation>>]
    /\ pc' = IF raised THEN "raised" ELSE "done"
    /\ UNCHANGED <<bids, omega_star, winner_value, raised, player_idx,
                   bids_without_player, omega_minus_player, v_omega_minus_player,
                   summation_omega_star_minus_player, runs_done, v_minus,
                   bids_at_call>>
    /\ UNCHANGED <<adm_vars, twice_vars, cw_vars, gs_vars, sh_vars>>
    /\ UNCHANGED <<pd_vars, vote_vars, irv_vars, sz_vars>>

NextAnyOrder == FullRun \/ PlayerRun \/ Assemble

SpecAnyOrder == InitAnyOrder /\ [][NextAnyOrder]_vars

\* what VCG_auction returns when the runs are made in the order of the code
SequentialVCG(d) ==
    LET full == compute_winner(d)
    IN [k \in DOMAIN d |->
          LET player == d[k].bidder
              without == compute_winner(del_player(d, player))
              l == omega_star_loop(full.winner, 1, player, 0, <<>>)
          IN <<player, l.vcg_itemset, without.winner_value - l.summation>>]

(***************************************************************************)
(* A call of pairwise_disjoint(sets) on any non-empty list of bundles,     *)
(* empty and repeated bundles included.                                    *)
(***************************************************************************)
BundleLists == UNION {[1..k -> SUBSET Items] : k \in 1..MaxCand}

InitPD ==
    /\ pd_sets \in BundleLists
    /\ pd_pc = "call"
    /\ pd_result = FALSE
    /\ FirstIdle /\ AOIdle /\ VoteIdle /\ IRVIdle /\ SZIdle

PairwiseDisjointCall ==
    /\ pd_pc = "call"
    /\ pd_result' = pairwise_disjoint(pd_sets)
    /\ pd_pc' = "returned"
    /\ UNCHANGED pd_sets
    /\ UNCHANGED <<first_vars, ao_vars, vote_vars, irv_vars, sz_vars>>

NextPD == PairwiseDisjointCall

SpecPD == InitPD /\ [][NextPD]_vars

(***************************************************************************)
(* C11: when the profile contains a bid whose bundle is empty or whose     *)
(* value is negative, the mechanism fails fast: it rejects the profile and *)
(* returns no allocation and no payments.                                  *)
(* The code has no such test: from_dict_to_list_bids and compute_winner    *)
(* take every bid as it is, so the run goes on to the end.                 *)
(***************************************************************************)
Malformed(d) == \E b \in BidSet(d) : b[2] = {} \/ b[3] < 0

C11_MalformedRejected ==
    Malformed(bids) => ~WinnerKnown /\ vcg = <<>>

(***************************************************************************)
(* C12: compute_winner replaces the current best whenever an admissible    *)
(* candidate's value is greater than or equal to the current best value,   *)
(* so among the admissible subsets attaining the maximum value it holds    *)
(* the one enumerated last.  After the iterations 0 .. cw_i the winner is  *)
(* the candidate of the largest index in 0 .. cw_i among the admissible    *)
(* ones of maximum value, and at the return this is the largest index in   *)
(* 0 .. 2^n - 1.                                                           *)
(***************************************************************************)
\* bit j of i
Bit(i, j) == (i \div Pow2(j)) % 2

\* the bids of subset index i, as the loop of compute_winner selects them
IndexSet(bl, i) ==
    {bl[Len(bl) - j] : j \in {k \in 0..(Len(bl) - 1) : Bit(i, k) = 1}}

SetMax(S) == CHOOSE x \in S : \A y \in S : y <= x

\* the indices in 0 .. upto whose subset is admissible and of maximum value
BestIndices(bl, upto) ==
    LET adm == {i \in 0..upto : AdmissibleSet(IndexSet(bl, i))}
        best == SetMax({TotalValue(IndexSet(bl, i)) : i \in adm})
    IN {i \in adm : TotalValue(IndexSet(bl, i)) = best}

CWExamined == cw_pc \in {"for", "done"} /\ cw_i >= 0

C13_Determinism ==
    run = 2 =>
        /\ WinnerKnown => omega_star = first_run[1] /\ winner_value = first_run[2]
        /\ WinnerKnown => /\ Len(vcg) <= Len(first_run[3])
                          /\ vcg = SubSeq(first_run[3], 1, Len(vcg))
        /\ pc = "done" => vcg = first_run[3]
        /\ pc # "raised"

\* the second run has returned, for two or more bidders, one of whom pays
C13_Witness ==
    /\ run = 2
    /\ pc = "done"
    /\ Len(vcg) >= 2
    /\ \E k \in DOMAIN vcg : vcg[k][3] > 0

(***************************************************************************)
(* C14: VCG_auction never modifies the valuation profile it is given: no   *)
(* step of the run changes bids, so after the return the profile has the   *)
(* same bidders and the same bundle-to-value entries as before, although a *)
(* reduced profile is built for every bidder.                              *)
(***************************************************************************)
C14_ProfileUnchanged == [][bids' = bids]_vars

\* a returned run that built reduced profiles for two or more bidders
C14_Witness ==
    /\ pc = "done"
    /\ Len(bids) >= 2
    /\ BidSet(bids) # {}
    /\ Len(bids_without_player) = Len(bids) - 1

(***************************************************************************)
(* C15: the output of VCG_auction contains exactly one entry for each      *)
(* bidder of the input profile and no other entries (the k-th entry is for *)
(* the k-th bidder), and the bundles recorded in bidder i's entry are      *)
(* exactly the bundles of the bids of i in the optimal allocation          *)
(* omega_star, so each entry records zero or one bundle.                   *)
(***************************************************************************)
C15_OneEntryPerBidder ==
    /\ WinnerKnown =>
          \A k \in DOMAIN vcg :
              /\ k <= Len(bids)
              /\ vcg[k][1] = bids[k].bidder
              /\ Range(vcg[k][2]) = BundlesOf(omega_star, vcg[k][1])
              /\ Len(vcg[k][2]) =
                    Cardinality({x \in DOMAIN omega_star :
                                    omega_star[x][1] = vcg[k][1]})
              /\ Len(vcg[k][2]) <= 1
    /\ pc = "done" =>
          /\ Len(vcg) = Len(bids)
          /\ {vcg[k][1] : k \in DOMAIN vcg} = Bidders(bids)
          /\ \A i \in Bidders(bids) :
                Cardinality({k \in DOMAIN vcg : vcg[k][1] = i}) = 1

\* a returned run with an entry of one bundle and an entry of no bundle
C15_Witness ==
    /\ pc = "done"
    /\ \E k \in DOMAIN vcg : Len(vcg[k][2]) = 1
    /\ \E k \in DOMAIN vcg : Len(vcg[k][2]) = 0 /\ bids[k].vals # <<>>

(***************************************************************************)
(* C16: for every profile with non-negative values, the sum of all         *)
(* payments returned by VCG_auction does not exceed the number of bidders  *)
(* times the optimum value of the full profile.                            *)
(***************************************************************************)
RECURSIVE SumPayments(_)
SumPayments(out) ==
    IF out = <<>> THEN 0 ELSE Head(out)[3] + SumPayments(Tail(out))

C16_PaymentCeiling ==
    (pc = "done" /\ NonNegative(bids)) =>
        SumPayments(vcg) <= Len(bids) * winner_value

\* a returned run on non-negative values in which two bidders pay
C16_Witness ==
    /\ pc = "done"
    /\ NonNegative(bids)
    /\ Cardinality({k \in DOMAIN vcg : vcg[k][3] > 0}) >= 2

(***************************************************************************)
(* C17: for n men and n women, each with a complete strict preference list *)
(* over the other side, the list returned by gale_shapley is a matching    *)
(* (every man with one woman, no woman twice) without a blocking pair:     *)
(* there is no man m and woman w not matched to each other such that m     *)
(* prefers w to his partner and w prefers m to her partner.                *)
(***************************************************************************)
PartnerOfMan(res, m) == (CHOOSE k \in DOMAIN res : res[k][1] = m)
PartnerOfWoman(res, w) == (CHOOSE k \in DOMAIN res : res[k][2] = w)

\* x comes before y in list
Prefers(list, x, y) == IndexOf(list, x) < IndexOf(list, y)

BlockingPair(res, men, women, k, w) ==
    LET m == men[k].man
        his == res[PartnerOfMan(res, m)][2]
        hers == res[PartnerOfWoman(res, w)][1]
    IN /\ his # w
       /\ Prefers(men[k].prefs, w, his)
       /\ Prefers(women[w], m, hers)

C17_StableMatching ==
    /\ gs_pc # "raised"
    /\ gs_pc = "done" =>
          /\ Len(gs_result) = Len(men_preferences_at_call)
          /\ \A k \in DOMAIN gs_result :
                /\ gs_result[k][1] = men_preferences_at_call[k].man
                /\ gs_result[k][2] \in DOMAIN women_preferences
          /\ \A k, x \in DOMAIN gs_result :
                k # x => gs_result[k][2] # gs_result[x][2]
          /\ \A k \in DOMAIN men_preferences_at_call :
             \A w \in DOMAIN women_preferences :
                ~BlockingPair(gs_result, men_preferences_at_call,
                              women_preferences, k, w)

\* a returned call in which some man does not get his first choice, so a
\* woman refused or left a man on the way
C17_Witness ==
    /\ gs_pc = "done"
    /\ Len(gs_result) >= 2
    /\ \E k \in DOMAIN gs_result :
          gs_result[k][2] # men_preferences_at_call[k].prefs[1]

(***************************************************************************)
(* C18: on the notebook's example preferences (men A..D, women W..Z)       *)
(* gale_shapley returns the list                                           *)
(*     [('B','Y'), ('A','W'), ('C','X'), ('D','Z')].                       *)
(* The code returns the pairs in the order of the keys of men_preferences: *)
(* ('A','W') comes first.                                                  *)
(***************************************************************************)
C18_ExampleOutput ==
    (gs_pc = "done" /\ men_preferences_at_call = ExampleMen
                   /\ women_preferences = ExampleWomen) =>
        gs_result = << <<"B", "Y">>, <<"A", "W">>, <<"C", "X">>, <<"D", "Z">> >>

(***************************************************************************)
(* C19: for every characteristic function given as a dictionary over all   *)
(* non-empty coalitions of the player set N, the values returned by        *)
(* shapley sum over all players to v(N).                                   *)
(* The code sums over the coalitions that are keys of the dictionary, so   *)
(* the marginal contribution of a player to the empty coalition is never   *)
(* counted: the values sum to v(N) minus the mean of the singletons'       *)
(* worths.  (Both sides are multiplied by factorial(|N|) here.)            *)
(***************************************************************************)
RECURSIVE SumValues(_)
SumValues(res) ==
    IF res = <<>> THEN 0 ELSE Head(res)[2] + SumValues(Tail(res))

GrandCoalition(cf) == UNION {cf[k].coalition : k \in DOMAIN cf}

C19_Efficiency ==
    sh_pc = "done" =>
        SumValues(sh_result) =
            factorial(Cardinality(GrandCoalition(characteristic_function)))
              * WorthOf(characteristic_function,
                        GrandCoalition(characteristic_function))

(***************************************************************************)
(* C20 as stated: when compute_winner examines subset index i, the         *)
(* candidate contains the j-th bid of the flattened bid list if and only   *)
(* if bit j of i is 1 (bids and bits both counted from 0).                 *)
(***************************************************************************)
C20_Original ==
    CWExamined =>
        \A j \in 0..(Len(cw_bids_list) - 1) :
            (cw_bids_list[j + 1] \in Range(cw_candidate)) <=> (Bit(cw_i, j) = 1)

(***************************************************************************)
(* C20 as amended: when compute_winner examines subset index i             *)
(* (0 <= i < 2^n), the candidate contains the bid at position n-1-j of the *)
(* flattened bid list (the j-th bid counted from the end of the list) if   *)
(* and only if bit j of i is 1; the candidate lists its bids in the order  *)
(* of increasing j and holds none twice.                                   *)
(***************************************************************************)
C20_ReverseIndexing ==
    CWExamined =>
        /\ cw_i < Pow2(Len(cw_bids_list))
        /\ \A j \in 0..(Len(cw_bids_list) - 1) :
              (cw_bids_list[Len(cw_bids_list) - j] \in Range(cw_candidate))
                  <=> (Bit(cw_i, j) = 1)
        /\ Len(cw_candidate) = Cardinality(Range(cw_candidate))
        /\ \A x, y \in DOMAIN cw_candidate :
              x < y =>
                 \E jx, jy \in 0..(Len(cw_bids_list) - 1) :
                    /\ jx < jy
                    /\ cw_candidate[x] = cw_bids_list[Len(cw_bids_list) - jx]
                    /\ cw_candidate[y] = cw_bids_list[Len(cw_bids_list) - jy]

\* the index 1 is examined on a list of three bids: the candidate is the
\* last bid of the list alone, not the first
C20_Witness ==
    /\ cw_pc = "for"
    /\ cw_i = 1
    /\ Len(cw_bids_list) = 3
    /\ cw_candidate = <<cw_bids_list[3]>>
    /\ cw_bids_list[3] # cw_bids_list[1]

(***************************************************************************)
(* C21: compute_winner terminates for every finite profile after examining *)
(* exactly 2^n candidates, where n is the total number of (bidder, bundle) *)
(* bids, and every subset of the n flattened bids is examined exactly      *)
(* once.  The call reaches its return; at no point have more candidates    *)
(* been built than there are subsets or has a subset been built twice; at  *)
(* the return every subset of the bids has been built.                     *)
(***************************************************************************)
ExaminedSets == {Range(cw_examined[k]) : k \in DOMAIN cw_examined}

C21_ExaminesEverySubsetOnce ==
    /\ <>(cw_pc = "done")
    /\ [](/\ cw_pc # "raised"
          /\ cw_pc \in {"for", "done"} =>
                /\ Len(cw_bids_list) = Cardinality(BidSet(bids))
                /\ Cardinality(ExaminedSets) = Len(cw_examined)
                /\ ExaminedSets \subseteq SUBSET BidSet(bids)
                /\ \A k \in DOMAIN cw_examined :
                      Len(cw_examined[k]) = Cardinality(Range(cw_examined[k]))
          /\ cw_pc = "done" => ExaminedSets = SUBSET BidSet(bids))

\* a returned call on three bids: eight candidates were built
C21_Witness ==
    /\ cw_pc = "done"
    /\ Cardinality(BidSet(bids)) = 3
    /\ Len(cw_examined) = 8

(***************************************************************************)
(* C30: loop invariant of compute_winner.  After every iteration           *)
(* winner_value equals the sum of the values of the bids of the retained   *)
(* winner allocation and is >= 0; an iteration never decreases             *)
(* winner_value, and it leaves the retained winner as it was unless it     *)
(* replaces it by the candidate it built; hence the returned value is the  *)
(* value of the returned allocation.                                       *)
(***************************************************************************)
RECURSIVE SumOfValues(_)
SumOfValues(alloc) ==
    IF alloc = <<>> THEN 0 ELSE Head(alloc)[3] + SumOfValues(Tail(alloc))

C30_LoopInvariant ==
    [][/\ cw_winner_value' = SumOfValues(cw_winner')
       /\ cw_winner_value' >= 0
       /\ cw_winner_value' >= cw_winner_value
       /\ \/ cw_winner' = cw_winner /\ cw_bound' = cw_bound
          \/ cw_winner' = cw_candidate' /\ cw_bound'
       /\ cw_pc' = "done" => cw_bound /\ cw_winner' = cw_winner]_vars

\* a returned call whose winner of positive value was retained through the
\* last iteration, which built another candidate
C30_Witness ==
    /\ cw_pc = "done"
    /\ cw_winner_value > 0
    /\ cw_candidate # cw_winner
    /\ Len(cw_winner) >= 2

(***************************************************************************)
(* C28: individual rationality.  For every profile with non-negative       *)
(* values, the payment VCG_auction charges a bidder is at most the value   *)
(* that bidder declared for the bundle awarded to them in omega_star, and  *)
(* is 0 for every bidder awarded nothing.                                  *)
(***************************************************************************)
\* the bids of bidder i in the allocation
BidsOf(omega, i) == {b \in Range(omega) : b[1] = i}

C28_IndividualRationality ==
    (WinnerKnown /\ NonNegative(bids)) =>
        \A k \in DOMAIN vcg :
            /\ BidsOf(omega_star, vcg[k][1]) = {} => vcg[k][3] = 0
            /\ \A b \in BidsOf(omega_star, vcg[k][1]) :
                  /\ vcg[k][3] <= b[3]
                  /\ \E e \in DOMAIN bids : \E x \in DOMAIN bids[e].vals :
                        /\ bids[e].bidder = b[1]
                        /\ bids[e].vals[x].itemset = b[2]
                        /\ bids[e].vals[x].value = b[3]

\* a returned run in which a winner pays exactly what it declared, another
\* winner pays less than it declared, and a bidder with a bid gets nothing
C28_Witness ==
    /\ pc = "done"
    /\ NonNegative(bids)
    /\ \E k \in DOMAIN vcg : \E b \in BidsOf(omega_star, vcg[k][1]) :
          vcg[k][3] = b[3] /\ b[3] > 0
    /\ \E k \in DOMAIN vcg : \E b \in BidsOf(omega_star, vcg[k][1]) :
          vcg[k][3] < b[3]
    /\ \E k \in DOMAIN vcg :
          BidsOf(omega_star, vcg[k][1]) = {} /\ bids[k].vals # <<>>

C23_RunningUnionIsPairwise ==
    pd_pc = "returned" =>
        (pd_result <=>
            \A x, y \in DOMAIN pd_sets :
                x # y => pd_sets[x] \cap pd_sets[y] = {})

\* a bundle repeated at the first and the third position with an empty
\* bundle between them: only the running union meets the overlap
C23_Witness ==
    /\ pd_pc = "returned"
    /\ Len(pd_sets) = 3
    /\ pd_sets[1] = pd_sets[3]
    /\ pd_sets[1] # {}
    /\ pd_sets[2] = {}
    /\ ~pd_result

(***************************************************************************)
(* C24: gale_shapley terminates for n men and n women with complete strict *)
(* preference lists, with every man matched, and no man ever exhausts his  *)
(* preference list: it never pops from an empty list, and an unmatched man *)
(* always has a woman left to propose to.                                  *)
(***************************************************************************)
C24_Terminates ==
    /\ <>(gs_pc = "done")
    /\ [](/\ gs_pc # "raised"
          /\ gs_pc \in {"while", "for"} =>
                \A k \in DOMAIN matches :
                    matches[k].woman = "None" => men_preferences[k].prefs # <<>>
          /\ gs_pc = "done" =>
                /\ Len(gs_result) = Len(men_preferences_at_call)
                /\ \A k \in DOMAIN gs_result :
                      gs_result[k][2] \in DOMAIN women_preferences)

\* a returned call in which a man went through his whole list: he is
\* matched to his last choice
C24_Witness ==
    /\ gs_pc = "done"
    /\ Len(gs_result) >= 2
    /\ \E k \in DOMAIN men_preferences : men_preferences[k].prefs = <<>>

(***************************************************************************)
(* C29: at every point of gale_shapley's execution (between two proposals; *)
(* inside a swap, between the assignment of the new partner and the reset  *)
(* of the old one, the dict holds the woman twice) the tentative matching  *)
(* is one-to-one: no woman is matched to two men at once, and a woman who  *)
(* has been matched stays matched for the rest of the run, each change of  *)
(* partner being to a man she ranks strictly higher.                       *)
(***************************************************************************)
\* the positions of the men matched to woman w
MatchedTo(ms, w) == {k \in DOMAIN ms : ms[k].woman = w}

NumCandidates == 3

\* and with 1 .. MaxVoters voters
MaxVoters == 2

CandidateNames == <<"A", "B", "C", "D">>

\* the candidate list after the notebook's ten shuffles, and the ten
\* rankings it recorded
NotebookC == <<"C", "D", "B", "A">>

NotebookPreferences ==
    << <<"C", "B", "D", "A">>, <<"A", "D", "C", "B">>, <<"D", "B", "C", "A">>,
       <<"B", "C", "D", "A">>, <<"C", "D", "A", "B">>, <<"D", "B", "A", "C">>,
       <<"A", "B", "D", "C">>, <<"B", "C", "A", "D">>, <<"B", "A", "C", "D">>,
       <<"C", "D", "B", "A">> >>

\* the lists of 1 .. n rankings of the candidates of cs
RankingLists(cs, n) == UNION {[1..k -> Perms(Range(cs))] : k \in 1..n}

\* counts = {candidate: 0 for candidate in C}, then one vote for the first
\* entry of every preference
plurality_counts(cs, prefs) ==
    [k \in DOMAIN cs |->
        [candidate |-> cs[k],
         votes |-> Cardinality({v \in DOMAIN prefs : prefs[v][1] = cs[k]})]]

\* max(counts.values())
max_votes(cnt) == SetMax({cnt[k].votes : k \in DOMAIN cnt})

\* max(counts, key = counts.get): the first key with the most votes
max_key(cnt) ==
    cnt[CHOOSE k \in DOMAIN cnt :
            /\ cnt[k].votes = max_votes(cnt)
            /\ \A x \in 1..(k - 1) : cnt[x].votes # max_votes(cnt)].candidate

\* the mutant of min_key that takes the first key with the most votes
min_key_most(cnt) == max_key(cnt)

\* min(counts, key = counts.get): the first key with the fewest votes
min_key(cnt) ==
    cnt[CHOOSE k \in DOMAIN cnt :
            /\ \A x \in DOMAIN cnt : cnt[k].votes <= cnt[x].votes
            /\ \A x \in 1..(k - 1) : cnt[x].votes > cnt[k].votes].candidate

has_majority(prefs, cnt) == max_votes(cnt) > Len(prefs) \div 2

\* list.remove(x): the list without the first occurrence of x
list_remove(cs, x) ==
    LET k == CHOOSE y \in DOMAIN cs :
                 cs[y] = x /\ \A z \in 1..(y - 1) : cs[z] # x
    IN  [y \in 1..(Len(cs) - 1) |-> IF y < k THEN cs[y] ELSE cs[y + 1]]

\* [candidate for candidate in preference if candidate in C]
RECURSIVE keep_in(_, _)
keep_in(preference, cs) ==
    IF preference = <<>> THEN <<>>
    ELSE IF Head(preference) \in Range(cs)
         THEN <<Head(preference)>> \o keep_in(Tail(preference), cs)
         ELSE keep_in(Tail(preference), cs)

\* the mutant of restore_C that leaves the global list as the rounds left it
restore_C_skip(c_now, c_saved) == c_now

\* C = C_copy.copy()
restore_C(c_now, c_saved) == c_saved

InitIRV ==
    /\ \/ /\ \E n \in 1..NumCandidates : C = SubSeq(CandidateNames, 1, n)
          /\ voter_preferences \in RankingLists(C, MaxVoters)
       \/ /\ C = NotebookC
          /\ voter_preferences = NotebookPreferences
    /\ irv_pc = "call"
    /\ C_copy = <<>>
    /\ preferences_copy = <<>>
    /\ counts = <<>>
    /\ irv_winner = "None"
    /\ removed = <<>>
    /\ C_at_call = C
    /\ preferences_at_call = voter_preferences
    /\ FirstIdle /\ AOIdle /\ PDIdle /\ SZIdle

\* the copies and the first plurality count
IRVStart ==
    /\ irv_pc = "call"
    /\ C_copy' = C
    /\ preferences_copy' = voter_preferences
    /\ counts' = plurality_counts(C, voter_preferences)
    /\ irv_pc' = "while"
    /\ UNCHANGED <<irv_winner, removed, C_at_call, preferences_at_call>>
    /\ UNCHANGED vote_vars
    /\ UNCHANGED <<first_vars, ao_vars, pd_vars, sz_vars>>

\* one round of the while loop
IRVRound ==
    /\ irv_pc = "while"
    /\ ~has_majority(preferences_copy, counts)
    /\ \E candidate_to_remove \in {min_key(counts)} :
          /\ C' = list_remove(C, candidate_to_remove)
          /\ removed' = Append(removed, candidate_to_remove)
    /\ preferences_copy' =
          [v \in DOMAIN preferences_copy |-> keep_in(preferences_copy[v], C')]
    /\ counts' = plurality_counts(C', preferences_copy')
    /\ UNCHANGED <<irv_pc, C_copy, irv_winner, C_at_call, preferences_at_call>>
    /\ UNCHANGED voter_preferences
    /\ UNCHANGED <<first_vars, ao_vars, pd_vars, sz_vars>>

\* the loop's exit: the global list is put back and the winner returned
IRVReturn ==
    /\ irv_pc = "while"
    /\ has_majority(preferences_copy, counts)
    /\ C' = restore_C(C, C_copy)
    /\ irv_winner' = max_key(counts)
    /\ irv_pc' = "done"
    /\ UNCHANGED <<C_copy, preferences_copy, counts, removed, C_at_call,
                   preferences_at_call>>
    /\ UNCHANGED voter_preferences
    /\ UNCHANGED <<first_vars, ao_vars, pd_vars, sz_vars>>

NextIRV == IRVStart \/ IRVRound \/ IRVReturn

SpecIRV == InitIRV /\ [][NextIRV]_vars

\* the interpreter runs the call to its end
SpecIRVFair == SpecIRV /\ WF_vars(NextIRV)

(***************************************************************************)
(* C26: IRV terminates for every non-empty list of complete strict         *)
(* rankings over C after at most |C|-1 eliminations; each round removes    *)
(* one candidate that has the fewest first-place votes among the           *)
(* remaining candidates; and the winner returned has more than             *)
(* floor(N/2) first-place votes in the final round.  The votes are         *)
(* counted here on the caller's rankings restricted to the candidates not  *)
(* yet removed, not on the function's working copies.                      *)
(***************************************************************************)
\* the candidates still in the race
Remaining == Range(C_at_call) \ Range(removed)

\* the caller's rankings with only the candidates of S left
Ballots(S) ==
    [v \in DOMAIN preferences_at_call |->
        SelectSeq(preferences_at_call[v], LAMBDA x : x \in S)]

\* the number of ballots that rank c first among the candidates of S
FirstPlaceVotes(S, c) ==
    Cardinality({v \in DOMAIN preferences_at_call :
                    Ballots(S)[v] # <<>> /\ Ballots(S)[v][1] = c})

C26_IRVTerminates ==
    /\ <>(irv_pc = "done")
    /\ [](Len(removed) <= Len(C_at_call) - 1)
    /\ [](irv_pc = "done" =>
            /\ irv_winner \in Remaining
            /\ FirstPlaceVotes(Remaining, irv_winner)
                  > Len(preferences_at_call) \div 2)
    /\ [][removed' # removed =>
            \E c \in Remaining :
               /\ removed' = Append(removed, c)
               /\ \A x \in Remaining :
                     FirstPlaceVotes(Remaining, c) <= FirstPlaceVotes(Remaining, x)]_vars

\* a call over three candidates or more that returned after removing all
\* candidates but the winner
C26_Witness ==
    /\ irv_pc = "done"
    /\ Len(C_at_call) >= 3
    /\ Len(removed) = Len(C_at_call) - 1
    /\ irv_winner \in Remaining

(***************************************************************************)
(* C27: IRV leaves its caller's data unchanged: after it returns, the      *)
(* preferences list passed in has the same rankings as before and the      *)
(* global list C has the same contents and order as before the call,       *)
(* although candidates are removed from C during the rounds.               *)
(***************************************************************************)
C27_CallerDataUnchanged ==
    /\ voter_preferences = preferences_at_call
    /\ irv_pc = "done" => C = C_at_call

\* a call that returned after it had removed candidates from C
C27_Witness ==
    /\ irv_pc = "done"
    /\ removed # <<>>
    /\ Len(C_copy) > Len(counts)
    /\ C = C_at_call

(***************************************************************************)
(* Lab 7, the Schulze method.  sorted_candidates is the sorted copy of C   *)
(* taken at module level, candidate_indexes the position of a candidate    *)
(* in it (from 1 here), perms the ordered pairs of distinct candidates.  A *)
(* matrix is a sequence of rows.  The graph built by get_graph_from_matrix *)
(* is complete, with edge (i, j) of weight matrix[i][j] for all i # j,     *)
(* zero weights included, and every node's successors in ascending order.  *)
(***************************************************************************)
sorted_candidates(cs) == SelectSeq(CandidateNames, LAMBDA x : x \in Range(cs))

perms(n) == {p \in (1..n) \X (1..n) : p[1] # p[2]}

\* every voter walks through perms and adds 1 to the entry of the ordered
\* pair it ranks in that order: for (c1, c2) when c1 comes first, otherwise
\* for (c2, c1)
compute_pairwise_matrix(prefs, sc) ==
    [i \in DOMAIN sc |-> [j \in DOMAIN sc |->
        Cardinality({vp \in (DOMAIN prefs) \X perms(Len(sc)) :
            \/ /\ vp[2] = <<i, j>>
               /\ IndexOf(prefs[vp[1]], sc[i]) < IndexOf(prefs[vp[1]], sc[j])
            \/ /\ vp[2] = <<j, i>>
               /\ ~(IndexOf(prefs[vp[1]], sc[j]) < IndexOf(prefs[vp[1]], sc[i]))})]]

\* the first path of len(sorted_candidates) - 1 edges that the depth-first
\* enumeration nx.all_simple_edge_paths yields from i to j: it leaves i,
\* visits every other candidate in ascending order and ends in j
RECURSIVE ascending(_, _, _)
ascending(k, n, skip) ==
    IF k > n THEN <<>>
    ELSE IF k \in skip THEN ascending(k + 1, n, skip)
         ELSE <<k>> \o ascending(k + 1, n, skip)

first_full_path(n, i, j) == <<i>> \o ascending(1, n, {i, j}) \o <<j>>

\* the running minimum of the weights over the edges of a path given by
\* its nodes, from edge k on
RECURSIVE path_min_weight(_, _, _, _)
path_min_weight(matrix, path, k, held) ==
    IF k >= Len(path) THEN held
    ELSE path_min_weight(matrix, path, k + 1,
                         Min(held, matrix[path[k]][path[k + 1]]))

\* the minimum starts from sys.maxsize, which no weight reaches: after the
\* first edge it is that edge's weight
all_pairs_widest_path(matrix) ==
    [i \in DOMAIN matrix |-> [j \in DOMAIN matrix |->
        IF i = j THEN 0
        ELSE LET direct_weight == matrix[i][j]
                 widest_path_min_weight ==
                     LET path == first_full_path(Len(matrix), i, j)
                     IN  path_min_weight(matrix, path, 2,
                                         matrix[path[1]][path[2]])
             IN  IF direct_weight >= widest_path_min_weight
                 THEN direct_weight ELSE widest_path_min_weight]]

RECURSIVE row_sum(_, _)
row_sum(row, k) == IF k = 0 THEN 0 ELSE row[k] + row_sum(row, k - 1)

\* counts = {candidate: sum(row of the candidate)}
schulze_counts(matrix, sc) ==
    [k \in DOMAIN sc |-> [candidate |-> sc[k],
                          votes |-> row_sum(matrix[k], Len(matrix[k]))]]

InitSZ ==
    /\ \/ /\ \E n \in 1..Len(CandidateNames) : C = SubSeq(CandidateNames, 1, n)
          /\ voter_preferences \in RankingLists(C, MaxVoters)
       \/ /\ C = NotebookC
          /\ voter_preferences = NotebookPreferences
    /\ sz_pc = "call"
    /\ pairwise_matrix = <<>>
    /\ all_pairs_widest_path_matrix = <<>>
    /\ sz_counts = <<>>
    /\ sz_winner = "None"
    /\ FirstIdle /\ AOIdle /\ PDIdle /\ IRVIdle

SZPairwise ==
    /\ sz_pc = "call"
    /\ pairwise_matrix' =
          compute_pairwise_matrix(voter_preferences, sorted_candidates(C))
    /\ sz_pc' = "graph"
    /\ UNCHANGED <<all_pairs_widest_path_matrix, sz_counts, sz_winner>>
    /\ UNCHANGED <<first_vars, ao_vars, pd_vars, vote_vars, irv_vars>>

SZWidest ==
    /\ sz_pc = "graph"
    /\ all_pairs_widest_path_matrix' = all_pairs_widest_path(pairwise_matrix)
    /\ sz_pc' = "paths"
    /\ UNCHANGED <<pairwise_matrix, sz_counts, sz_winner>>
    /\ UNCHANGED <<first_vars, ao_vars, pd_vars, vote_vars, irv_vars>>

SZReturn ==
    /\ sz_pc = "paths"
    /\ \E r \in {schulze_counts(all_pairs_widest_path_matrix,
                                sorted_candidates(C))} :
          /\ sz_counts' = r
          /\ sz_winner' = max_key(r)
    /\ sz_pc' = "done"
    /\ UNCHANGED <<pairwise_matrix, all_pairs_widest_path_matrix>>
    /\ UNCHANGED <<first_vars, ao_vars, pd_vars, vote_vars, irv_vars>>

NextSZ == SZPairwise \/ SZWidest \/ SZReturn

SpecSZ == InitSZ /\ [][NextSZ]_vars

(***************************************************************************)
(* C25: all_pairs_widest_path stores, for every ordered pair of distinct   *)
(* candidates (c1, c2), the width of the widest path from c1 to c2 in the  *)
(* pairwise-preference graph: the maximum over all simple paths from c1    *)
(* to c2 of the minimum edge weight on the path.                           *)
(***************************************************************************)
\* the simple paths from i to j over the nodes 1 .. n, as lists of nodes
SimplePaths(n, i, j) ==
    {<<i>> \o p \o <<j>> :
        p \in UNION {Perms(S) : S \in SUBSET ((1..n) \ {i, j})}}

\* the minimum edge weight on a path
Width(matrix, path) ==
    CHOOSE w \in {matrix[path[k]][path[k + 1]] : k \in 1..(Len(path) - 1)} :
        \A k \in 1..(Len(path) - 1) : w <= matrix[path[k]][path[k + 1]]

WidestWidth(matrix, i, j) ==
    SetMax({Width(matrix, path) : path \in SimplePaths(Len(matrix), i, j)})

C25_WidestPath ==
    sz_pc \in {"paths", "done"} =>
        \A p \in perms(Len(pairwise_matrix)) :
            all_pairs_widest_path_matrix[p[1]][p[2]]
                = WidestWidth(pairwise_matrix, p[1], p[2])

====
